---- MODULE Spec2Model ----
(***************************************************************************)
(* Model of axis-ticks (src/src/lib.rs): the step selector tick_increment  *)
(* and the sequence generator ticks.                                       *)
(*                                                                         *)
(* A value of the float type T is a record: k is "fin" for a finite value  *)
(* n/d (a fraction in lowest terms, d > 0) and "nan", "pinf" or "ninf" for *)
(* the IEEE-754 special values.  Finite arithmetic is exact (no rounding), *)
(* the special values follow IEEE-754.  usize is the range 0..UsizeMax.    *)
(***************************************************************************)
EXTENDS Integers, Sequences, FiniteSets, TLC

\* ------------------------------------------------------------------------
\* Bounds of the model
\* ------------------------------------------------------------------------
\* finite inputs are the fractions i/Den with -MaxNum <= i <= MaxNum and, on a
\* finer grid around zero, i/FineDen with -MaxFine <= i <= MaxFine
Den == 4
MaxNum == 20
FineDen == 20
MaxFine == 9
\* the powers of ten searched for the order of magnitude of a raw step
MaxPower == 5
\* largest value of the count type (usize::MAX, scaled down)
UsizeMax == 8

\* ------------------------------------------------------------------------
\* Integer helpers
\* ------------------------------------------------------------------------
Abs(i) == IF i < 0 THEN -i ELSE i

RECURSIVE GCD(_, _)
GCD(a, b) == IF b = 0 THEN a ELSE GCD(b, a % b)

RECURSIVE Pow(_, _)
Pow(b, e) == IF e = 0 THEN 1 ELSE b * Pow(b, e - 1)

\* floor and ceiling of the fraction n/d, d > 0 (\div rounds toward -infinity)
FloorDiv(n, d) == n \div d
CeilDiv(n, d) == -((-n) \div d)

\* ------------------------------------------------------------------------
\* The float type T
\* ------------------------------------------------------------------------
NaN == [k |-> "nan", n |-> 0, d |-> 1]
PInf == [k |-> "pinf", n |-> 0, d |-> 1]
NInf == [k |-> "ninf", n |-> 0, d |-> 1]

\* the finite value n/d, d /= 0, in lowest terms
Fin(n, d) ==
    LET s == IF d < 0 THEN -1 ELSE 1
        g == GCD(Abs(n), Abs(d))
    IN [k |-> "fin", n |-> (s * n) \div g, d |-> (s * d) \div g]

\* T::from_f64 of an integer literal, T::from_usize
from_f64(i) == Fin(i, 1)
from_usize(i) == Fin(i, 1)

is_nan(x) == x.k = "nan"
is_finite(x) == x.k = "fin"
is_infinite(x) == x.k \in {"pinf", "ninf"}
is_zero(x) == x.k = "fin" /\ x.n = 0

\* -1, 0 or 1; the sign of a zero is that of +0.0
Sign(x) ==
    CASE x.k = "pinf" -> 1
      [] x.k = "ninf" -> -1
      [] x.k = "fin" -> IF x.n < 0 THEN -1 ELSE 1
      [] OTHER -> 1

Inf(s) == IF s < 0 THEN NInf ELSE PInf

is_sign_positive(x) == Sign(x) = 1

Neg(x) ==
    CASE x.k = "pinf" -> NInf
      [] x.k = "ninf" -> PInf
      [] x.k = "fin" -> Fin(-x.n, x.d)
      [] OTHER -> NaN

Add(x, y) ==
    CASE is_nan(x) \/ is_nan(y) -> NaN
      [] is_infinite(x) /\ is_infinite(y) -> IF x.k = y.k THEN x ELSE NaN
      [] is_infinite(x) -> x
      [] is_infinite(y) -> y
      [] OTHER -> Fin(x.n * y.d + y.n * x.d, x.d * y.d)

Sub(x, y) == Add(x, Neg(y))

Mul(x, y) ==
    CASE is_nan(x) \/ is_nan(y) -> NaN
      [] is_infinite(x) \/ is_infinite(y) ->
            IF is_zero(x) \/ is_zero(y) THEN NaN ELSE Inf(Sign(x) * Sign(y))
      [] OTHER -> Fin(x.n * y.n, x.d * y.d)

Div(x, y) ==
    CASE is_nan(x) \/ is_nan(y) -> NaN
      [] is_infinite(x) /\ is_infinite(y) -> NaN
      [] is_infinite(x) -> Inf(Sign(x) * Sign(y))
      [] is_infinite(y) -> Fin(0, 1)
      [] is_zero(y) -> IF is_zero(x) THEN NaN ELSE Inf(Sign(x) * Sign(y))
      [] OTHER -> Fin(x.n * y.d, x.d * y.n)

\* x == y, x < y, x >= y of the float type: false when either side is NaN
Eq(x, y) == ~is_nan(x) /\ ~is_nan(y) /\ x = y

Lt(x, y) ==
    CASE is_nan(x) \/ is_nan(y) -> FALSE
      [] x.k = "pinf" -> FALSE
      [] y.k = "ninf" -> FALSE
      [] x.k = "ninf" -> TRUE
      [] y.k = "pinf" -> TRUE
      [] OTHER -> x.n * y.d < y.n * x.d

Ge(x, y) == ~is_nan(x) /\ ~is_nan(y) /\ ~Lt(x, y)

floor(x) == IF is_finite(x) THEN Fin(FloorDiv(x.n, x.d), 1) ELSE x

ceil(x) == IF is_finite(x) THEN Fin(CeilDiv(x.n, x.d), 1) ELSE x

\* Float::to_usize: the value truncated toward zero when that is in the range
\* of usize, None (modelled as -1) otherwise
None == -1

to_usize(x) ==
    IF ~is_finite(x) THEN None
    ELSE LET t == IF x.n < 0 THEN CeilDiv(x.n, x.d) ELSE FloorDiv(x.n, x.d)
         IN IF t >= 0 /\ t <= UsizeMax THEN t ELSE None

\* the largest p with 10^p * d <= n, for n >= d > 0
RECURSIVE LogUp(_, _, _)
LogUp(n, d, p) == IF 10 * d <= n THEN LogUp(n, 10 * d, p + 1) ELSE p

\* the smallest q with n * 10^q >= d, for 0 < n < d
RECURSIVE LogDown(_, _, _)
LogDown(n, d, q) == IF n >= d THEN q ELSE LogDown(10 * n, d, q + 1)

\* (x.ln() / T::LN_10()).floor()
log10_floor(x) ==
    CASE is_nan(x) -> NaN
      [] x.k = "pinf" -> PInf
      [] x.k = "ninf" -> NaN
      [] x.n < 0 -> NaN
      [] x.n = 0 -> NInf
      [] x.n >= x.d -> Fin(LogUp(x.n, x.d, 0), 1)
      [] OTHER -> Fin(-LogDown(x.n, x.d, 0), 1)

\* T::from_f64(10.0).unwrap().powf(p), p an integer or a special value
pow10(p) ==
    CASE is_nan(p) -> NaN
      [] p.k = "pinf" -> PInf
      [] p.k = "ninf" -> Fin(0, 1)
      [] p.n >= 0 -> Fin(Pow(10, p.n), 1)
      [] OTHER -> Fin(1, Pow(10, -p.n))

\* x >= T::from_f64(c).unwrap().sqrt(), c a positive integer that is not a
\* square: the square root is irrational, the comparison is decided on squares
ge_sqrt(x, c) ==
    CASE is_nan(x) -> FALSE
      [] x.k = "pinf" -> TRUE
      [] x.k = "ninf" -> FALSE
      [] OTHER -> x.n >= 0 /\ x.n * x.n >= c * x.d * x.d

\* ------------------------------------------------------------------------
\* tick_increment: the step selector
\* ------------------------------------------------------------------------
\* mantissa with the thresholds 50, 10 and 2 in place of their square roots
mantissa_no_sqrt(error) ==
    IF Ge(error, from_f64(50)) THEN from_f64(10)
    ELSE IF Ge(error, from_f64(10)) THEN from_f64(5)
    ELSE IF Ge(error, from_f64(2)) THEN from_f64(2)
    ELSE from_f64(1)

\* the nice mantissa chosen for the normalised error
mantissa(error) ==
    IF ge_sqrt(error, 50) THEN from_f64(10)
    ELSE IF ge_sqrt(error, 10) THEN from_f64(5)
    ELSE IF ge_sqrt(error, 2) THEN from_f64(2)
    ELSE from_f64(1)

\* tick_increment without the factor -1 of the inverted step
tick_increment_unsigned(a, b, c) ==
    LET raw == Div(Sub(b, a), from_usize(c))
        power == log10_floor(raw)
        error == Div(raw, pow10(power))
        v == mantissa(error)
    IN IF Ge(power, from_f64(0))
       THEN Mul(v, pow10(power))
       ELSE Div(pow10(Mul(power, from_f64(-1))), v)

tick_increment(a, b, c) ==
    LET raw == Div(Sub(b, a), from_usize(c))
        power == log10_floor(raw)
        error == Div(raw, pow10(power))
        v == mantissa(error)
    IN IF Ge(power, from_f64(0))
       THEN Mul(v, pow10(power))
       ELSE Div(Mul(from_f64(-1), pow10(Mul(power, from_f64(-1)))), v)

\* ------------------------------------------------------------------------
\* ticks: the sequence generator
\* ------------------------------------------------------------------------
\* (stop - start + 1).ceil().to_usize(): the length of the vector, or None
length(lo, hi) == to_usize(ceil(Add(Sub(hi, lo), from_f64(1))))

\* the outcome of a branch: the unwrap of a None length panics
Panicked == [panic |-> TRUE, vec |-> << >>]
Returned(v) == [panic |-> FALSE, vec |-> v]

\* positive_branch with the first multiple rounded down instead of up
positive_branch_floor_lo(a, b, st) ==
    LET lo == floor(Div(a, st))
        hi == floor(Div(b, st))
        n == length(lo, hi)
    IN IF n = None THEN Panicked
       ELSE Returned([i \in 1..n |-> Mul(Add(lo, from_usize(i - 1)), st)])

\* step > 0: the multiples of step from ceil(start/step) to floor(stop/step)
positive_branch(a, b, st) ==
    LET lo == ceil(Div(a, st))
        hi == floor(Div(b, st))
        n == length(lo, hi)
    IN IF n = None THEN Panicked
       ELSE Returned([i \in 1..n |-> Mul(Add(lo, from_usize(i - 1)), st)])

\* inverted_branch counting down from the last multiple
inverted_branch_descending(a, b, st) ==
    LET scale == Mul(st, from_f64(-1))
        lo == floor(Mul(a, scale))
        hi == ceil(Mul(b, scale))
        n == length(lo, hi)
    IN IF n = None THEN Panicked
       ELSE Returned([i \in 1..n |-> Div(Sub(hi, from_usize(i - 1)), scale)])

\* inverted_branch keeping inside the interval: ceil for the first multiple,
\* floor for the last
inverted_branch_inside(a, b, st) ==
    LET scale == Mul(st, from_f64(-1))
        lo == ceil(Mul(a, scale))
        hi == floor(Mul(b, scale))
        n == length(lo, hi)
    IN IF n = None THEN Panicked
       ELSE Returned([i \in 1..n |-> Div(Add(lo, from_usize(i - 1)), scale)])

\* step < 0: the multiples of 1/-step from floor(start*-step) to ceil(stop*-step)
inverted_branch(a, b, st) ==
    LET scale == Mul(st, from_f64(-1))
        lo == floor(Mul(a, scale))
        hi == ceil(Mul(b, scale))
        n == length(lo, hi)
    IN IF n = None THEN Panicked
       ELSE Returned([i \in 1..n |-> Div(Add(lo, from_usize(i - 1)), scale)])

\* a reverse that leaves the vector as it is
Reversed_not(v) == v

\* Vec::reverse
Reversed(v) == [i \in 1..Len(v) |-> v[Len(v) + 1 - i]]

\* is_single without the test of count
is_single_any_count(a, b, c) == Eq(a, b)

\* is_single asking for count > 1
is_single_above_one(a, b, c) == Eq(a, b) /\ c > 1

\* the early return for equal endpoints
is_single(a, b, c) == Eq(a, b) /\ c > 0

\* the endpoints in ascending order and whether they were swapped
normalize(a, b) ==
    IF Lt(b, a) THEN [reverse |-> TRUE, start |-> b, stop |-> a]
    ELSE [reverse |-> FALSE, start |-> a, stop |-> b]

\* is_rejected without the test for a non-finite step
is_rejected_zero_only(st) == is_zero(st)

\* the step is rejected: the result is empty
is_rejected(st) == is_zero(st) \/ ~is_finite(st)

\* the whole call
ticks(a, b, c) ==
    IF is_single(a, b, c) THEN Returned(<<a>>)
    ELSE LET nz == normalize(a, b)
             st == tick_increment(nz.start, nz.stop, c)
             r == IF is_sign_positive(st)
                  THEN positive_branch(nz.start, nz.stop, st)
                  ELSE inverted_branch(nz.start, nz.stop, st)
         IN IF is_rejected(st) THEN Returned(<< >>)
            ELSE IF r.panic THEN Panicked
            ELSE IF nz.reverse THEN Returned(Reversed(r.vec))
            ELSE r

\* ------------------------------------------------------------------------
\* One call of ticks, step by step
\* ------------------------------------------------------------------------
VARIABLES
    start, stop, count,   \* the arguments of the call
    pc,                   \* position in ticks
    reverse,              \* line 25
    nstart, nstop,        \* the rebound start and stop of line 26
    step,                 \* line 32
    out                   \* the vector returned

vars == <<start, stop, count, pc, reverse, nstart, nstop, step, out>>

Finite ==
    {Fin(i, Den) : i \in -MaxNum..MaxNum} \cup {Fin(i, FineDen) : i \in -MaxFine..MaxFine}
Floats == Finite \cup {NaN, PInf, NInf}
Counts == 0..UsizeMax

Init ==
    /\ start \in Floats
    /\ stop \in Floats
    /\ count \in Counts
    /\ pc = "entry"
    /\ reverse = FALSE
    /\ nstart = start
    /\ nstop = stop
    /\ step = NaN
    /\ out = << >>

\* lines 21-23
ReturnSingle ==
    /\ pc = "entry"
    /\ is_single(start, stop, count)
    /\ out' = <<start>>
    /\ pc' = "done"
    /\ UNCHANGED <<start, stop, count, reverse, nstart, nstop, step>>

\* lines 25-30
Normalize ==
    /\ pc = "entry"
    /\ ~is_single(start, stop, count)
    /\ reverse' = normalize(start, stop).reverse
    /\ nstart' = normalize(start, stop).start
    /\ nstop' = normalize(start, stop).stop
    /\ pc' = "increment"
    /\ UNCHANGED <<start, stop, count, step, out>>

\* line 32
TickIncrement ==
    /\ pc = "increment"
    /\ step' = tick_increment(nstart, nstop, count)
    /\ pc' = "check"
    /\ UNCHANGED <<start, stop, count, reverse, nstart, nstop, out>>

\* lines 33-35
ReturnEmpty ==
    /\ pc = "check"
    /\ is_rejected(step)
    /\ out' = << >>
    /\ pc' = "done"
    /\ UNCHANGED <<start, stop, count, reverse, nstart, nstop, step>>

\* lines 37-48
PositiveStep ==
    /\ pc = "check"
    /\ ~is_rejected(step)
    /\ is_sign_positive(step)
    /\ LET r == positive_branch(nstart, nstop, step)
       IN /\ out' = r.vec
          /\ pc' = IF r.panic THEN "panic" ELSE "reverse"
    /\ UNCHANGED <<start, stop, count, reverse, nstart, nstop, step>>

\* lines 49-62
InvertedStep ==
    /\ pc = "check"
    /\ ~is_rejected(step)
    /\ ~is_sign_positive(step)
    /\ LET r == inverted_branch(nstart, nstop, step)
       IN /\ out' = r.vec
          /\ pc' = IF r.panic THEN "panic" ELSE "reverse"
    /\ UNCHANGED <<start, stop, count, reverse, nstart, nstop, step>>

\* lines 64-68
ReverseTicks ==
    /\ pc = "reverse"
    /\ out' = IF reverse THEN Reversed(out) ELSE out
    /\ pc' = "done"
    /\ UNCHANGED <<start, stop, count, reverse, nstart, nstop, step>>

Next ==
    \/ ReturnSingle
    \/ Normalize
    \/ TickIncrement
    \/ ReturnEmpty
    \/ PositiveStep
    \/ InvertedStep
    \/ ReverseTicks

Spec == Init /\ [][Next]_vars

\* the result of the step-by-step call is that of the whole call
StepwiseAgrees ==
    /\ pc = "done" => ticks(start, stop, count) = Returned(out)
    /\ pc = "panic" => ticks(start, stop, count) = Panicked

\* ------------------------------------------------------------------------
\* Properties
\* ------------------------------------------------------------------------
Le(x, y) == ~is_nan(x) /\ ~is_nan(y) /\ ~Lt(y, x)

\* the call is valid and non-degenerate: finite start < stop, count >= 1
Valid == is_finite(start) /\ is_finite(stop) /\ Lt(start, stop) /\ count >= 1

NonFinite == ~is_finite(start) \/ ~is_finite(stop)

\* the call went through one of the two branches: its step is finite and not
\* zero, positive in the positive-step branch, negative in the inverted one
InPositiveBranch == pc = "done" /\ Valid /\ ~is_rejected(step) /\ is_sign_positive(step)
InInvertedBranch == pc = "done" /\ Valid /\ ~is_rejected(step) /\ ~is_sign_positive(step)

\* the call returned the empty sequence
ReturnsEmpty == pc # "panic" /\ (pc = "done" => out = << >>)

\* C1 as stated: for every non-finite start or stop and every count the call
\* returns the empty sequence, the same infinity on both endpoints included.
C1_NonFiniteAlwaysEmpty == NonFinite => ReturnsEmpty

\* C1 amended: for every non-finite start or stop the call returns the empty
\* sequence, except that equal infinite endpoints with count > 0 return [start].
C1_NonFiniteEmpty ==
    NonFinite =>
        /\ ~is_single(start, stop, count) => ReturnsEmpty
        /\ is_single(start, stop, count) =>
              (pc # "panic" /\ (pc = "done" => out = <<start>>))

C1_Witness ==
    /\ pc = "done"
    /\ start = NInf
    /\ is_finite(stop)
    /\ count > 0
    /\ step = PInf
    /\ out = << >>

\* the call took the early return: it is at its entry or has returned [start]
\* without passing through the step selector
ShortcutTaken ==
    /\ pc \in {"entry", "done"}
    /\ pc = "done" => out = <<start>>

\* C2 as stated: for every start and every count > 0, ticks(start, start,
\* count) returns [start] and the step selector is not consulted.
C2_EveryStartSingle == (start = stop /\ count > 0) => ShortcutTaken

\* C2 amended: for every start that is not NaN and every count > 0,
\* ticks(start, start, count) returns [start] without consulting the step
\* selector.
C2_Single == (~is_nan(start) /\ start = stop /\ count > 0) => ShortcutTaken

C2_Witness ==
    /\ pc = "done"
    /\ start = stop
    /\ is_finite(start)
    /\ count > 0
    /\ out = <<start>>

\* C3: for count = 0 the call returns the empty sequence for every pair of
\* endpoints: the shortcut is not taken and the step is non-finite.
C3_CountZeroEmpty ==
    count = 0 =>
        /\ pc \in {"entry", "increment", "check", "done"}
        /\ pc \in {"check", "done"} => ~is_finite(step)
        /\ pc = "done" => out = << >>

C3_Witness ==
    /\ pc = "done"
    /\ count = 0
    /\ is_finite(start)
    /\ is_finite(stop)
    /\ Lt(start, stop)
    /\ step = PInf
    /\ out = << >>

\* C4: for every start < stop and every count, ticks(stop, start, count) is
\* exactly the reverse of ticks(start, stop, count).
C4_ReverseCall ==
    (pc = "done" /\ Lt(start, stop)) =>
        LET r == ticks(stop, start, count)
        IN /\ ~r.panic
           /\ Len(r.vec) = Len(out)
           /\ \A i \in 1..Len(out) : r.vec[i] = out[Len(out) + 1 - i]

C4_Witness ==
    /\ pc = "done"
    /\ Lt(start, stop)
    /\ Len(out) >= 3
    /\ out[1] # out[Len(out)]

\* C5: for every start < stop and every count the returned sequence is
\* non-decreasing, in the positive-step and in the inverted-step branch.
C5_NonDecreasing ==
    (pc = "done" /\ Lt(start, stop)) =>
        \A i \in 1..(Len(out) - 1) : Le(out[i], out[i + 1])

C5_Witness ==
    /\ pc = "done"
    /\ Lt(start, stop)
    /\ ~is_sign_positive(step)
    /\ Len(out) >= 3

\* C6: ticks never panics: the length cast to the count type always succeeds.
C6_NeverPanics == pc # "panic"

\* the exact length hi - lo + 1 of the branch taken, before the cast to usize
ExactLength ==
    IF is_sign_positive(step)
    THEN Add(Sub(floor(Div(nstop, step)), ceil(Div(nstart, step))), from_f64(1))
    ELSE Add(Sub(ceil(Mul(nstop, Neg(step))), floor(Mul(nstart, Neg(step)))), from_f64(1))

\* the only panic is the length cast of a finite length above usize::MAX, and
\* it needs a count above (usize::MAX - 2) / 2
PanicOnlyOnOverflow ==
    pc = "panic" =>
        /\ is_finite(ExactLength)
        /\ Lt(from_usize(UsizeMax), ExactLength)
        /\ 2 * count + 2 > UsizeMax

C6_Panic ==
    /\ pc = "panic"
    /\ start = Fin(-5, 1)
    /\ stop = Fin(5, 1)
    /\ count = 8
    /\ step = Fin(1, 1)

\* C7 as stated: for every valid non-degenerate call the length L of the
\* result satisfies count/2 <= L <= 2*count.
C7_LengthWithinHalfAndDouble ==
    (pc = "done" /\ Valid) => (count <= 2 * Len(out) /\ Len(out) <= 2 * count)

\* C7 amended: for every valid non-degenerate call that goes through a branch
\* and returns, the length L of the result satisfies
\* floor(count/2) <= L <= 2*count + 2, and L <= 2*count in the positive-step
\* branch.
C7_LengthBounds ==
    (InPositiveBranch \/ InInvertedBranch) =>
        /\ count \div 2 <= Len(out)
        /\ Len(out) <= 2 * count + 2
        /\ is_sign_positive(step) => Len(out) <= 2 * count

C7_Witness ==
    /\ pc = "done"
    /\ Valid
    /\ count = 1
    /\ ~is_sign_positive(step)
    /\ Len(out) = 4

\* the integers k with start <= k*st <= stop, st a positive finite step
MultiplesWithin(st) ==
    {k \in -MaxNum..MaxNum :
        /\ Le(start, Mul(from_f64(k), st))
        /\ Le(Mul(from_f64(k), st), stop)}

\* C8: in the positive-step branch the result is exactly the integer multiples
\* k*step with start <= k*step <= stop, ascending, none missing or repeated.
C8_PositiveBranchMultiples ==
    InPositiveBranch =>
        /\ Len(out) = Cardinality(MultiplesWithin(step))
        /\ {out[i] : i \in 1..Len(out)}
              = {Mul(from_f64(k), step) : k \in MultiplesWithin(step)}
        /\ \A i \in 1..(Len(out) - 1) : Lt(out[i], out[i + 1])
        /\ \A i \in 1..Len(out) : Le(start, out[i]) /\ Le(out[i], stop)

C8_Witness ==
    /\ pc = "done"
    /\ Valid
    /\ is_sign_positive(step)
    /\ Len(out) >= 3
    /\ out[1] = start
    /\ Lt(out[Len(out)], stop)

\* C9: in the inverted-step branch, with scale = -step, the result is k/scale
\* for the consecutive integers k from floor(start*scale) to ceil(stop*scale):
\* the first tick is <= start, the last is >= stop, at most one tick is below
\* start and at most one above stop, and the result is not empty.
C9_InvertedBranchCovers ==
    InInvertedBranch =>
        LET scale == Neg(step)
            k(i) == Mul(out[i], scale)
        IN /\ Len(out) >= 1
           /\ \A i \in 1..Len(out) : k(i).d = 1
           /\ \A i \in 1..(Len(out) - 1) : k(i + 1).n = k(i).n + 1
           /\ Le(out[1], start)
           /\ Le(stop, out[Len(out)])
           /\ Cardinality({i \in 1..Len(out) : Lt(out[i], start)}) <= 1
           /\ Cardinality({i \in 1..Len(out) : Lt(stop, out[i])}) <= 1

C9_Witness ==
    /\ pc = "done"
    /\ Valid
    /\ ~is_sign_positive(step)
    /\ Lt(out[1], start)
    /\ Lt(stop, out[Len(out)])
    /\ Len(out) >= 4

\* the reference step for the raw step rn/rd > 0, with order of magnitude p
\* and mantissa v
ReferenceStep(rn, rd, p, v) ==
    LET en == IF p >= 0 THEN rn ELSE rn * Pow(10, -p)
        ed == IF p >= 0 THEN rd * Pow(10, p) ELSE rd
    IN /\ ed <= en
       /\ en < 10 * ed
       /\ v = 10 <=> en * en >= 50 * ed * ed
       /\ v = 5 <=> (en * en >= 10 * ed * ed /\ en * en < 50 * ed * ed)
       /\ v = 2 <=> (en * en >= 2 * ed * ed /\ en * en < 10 * ed * ed)
       /\ v = 1 <=> en * en < 2 * ed * ed
       /\ step = IF p >= 0 THEN Fin(v * Pow(10, p), 1) ELSE Fin(-Pow(10, -p), v)
       /\ (p >= 0) <=> (rn >= rd)

\* C10: for start < stop and count >= 1, tick_increment is the reference step:
\* v*10^power for power >= 0 and -(10^-power)/v for power < 0, with v in
\* {1, 2, 5, 10} chosen at sqrt(50), sqrt(10), sqrt(2); it is never zero and
\* is positive exactly when the raw step is >= 1.
C10_StepIsReference ==
    (/\ pc \in {"check", "reverse", "done", "panic"}
     /\ is_finite(nstart) /\ is_finite(nstop) /\ Lt(nstart, nstop) /\ count >= 1) =>
        LET rn == nstop.n * nstart.d - nstart.n * nstop.d
            rd == nstop.d * nstart.d * count
        IN /\ \E p \in -MaxPower..MaxPower : \E v \in {1, 2, 5, 10} :
                 ReferenceStep(rn, rd, p, v)
           /\ ~is_zero(step)
           /\ is_finite(step)
           /\ is_sign_positive(step) <=> (rn >= rd)

C10_Witness ==
    /\ pc = "check"
    /\ Lt(nstart, nstop)
    /\ count >= 2
    /\ step = Fin(-100, 5)

====
